---- MODULE Spec2Model ----
(***************************************************************************)
(* Model of scripts/run_migrations.py: the migration catalog (directory    *)
(* listing, ordering, identity derivation) and the migration runner (the   *)
(* bookkeeping table schema_migrations, the apply / skip / stop loop and   *)
(* the transactional behaviour of one psycopg2 connection).                *)
(*                                                                         *)
(* File names are sequences of character codes, so that sorting, the glob  *)
(* filter "*.sql" and Path.stem are computed and not assumed.              *)
(***************************************************************************)
EXTENDS Integers, Sequences, FiniteSets, TLC

(* ------------------------------------------------------------------ *)
(* Bounds of the model                                                 *)
(* ------------------------------------------------------------------ *)

\* number of sequential invocations of run_migrations that are explored
MaxRuns == 2

\* number of statements in the body of every migration script
StmtsPerScript == 2

\* number of changes (edits, renames) made to the migrations directory
MaxFsChanges == 1

\* the signals that end the process: SIGINT and SIGKILL
Signals == {2, 9}

\* length of the longest text given for a section of an SRS document
MaxSectionLen == 2

\* number of sections of an SRS document whose value is not the usual text
MaxOddSections == 2

(* ------------------------------------------------------------------ *)
(* File names                                                          *)
(* ------------------------------------------------------------------ *)

\* ".sql", the suffix selected by MIGRATIONS_DIR.glob("*.sql")
SqlSuffix == <<46, 115, 113, 108>>

\* the names a migrations directory may hold in this model:
\* ".sql", ".sql.sql", "a.sql", "b.sql" and "n.txt"
FileNames ==
    { <<46, 115, 113, 108>>,
      <<46, 115, 113, 108, 46, 115, 113, 108>>,
      <<97, 46, 115, 113, 108>>,
      <<98, 46, 115, 113, 108>>,
      <<110, 46, 116, 120, 116>> }

\* str.__lt__ on two file names: lexicographic order on character codes
RECURSIVE LessThan(_, _)
LessThan(a, b) ==
    IF b = <<>> THEN FALSE
    ELSE IF a = <<>> THEN TRUE
    ELSE IF Head(a) # Head(b) THEN Head(a) < Head(b)
    ELSE LessThan(Tail(a), Tail(b))

\* the pattern "*.sql" of Path.glob: the name ends with ".sql"
MatchesSql(name) ==
    /\ Len(name) >= Len(SqlSuffix)
    /\ SubSeq(name, Len(name) - Len(SqlSuffix) + 1, Len(name)) = SqlSuffix

\* the same files in descending order (a listing that is not sorted)
RECURSIVE sorted_descending(_)
sorted_descending(S) ==
    IF S = {} THEN <<>>
    ELSE LET m == CHOOSE x \in S : \A y \in S \ {x} : LessThan(y, x)
         IN  <<m>> \o sorted_descending(S \ {m})

\* sorted(): ascending order of the names of a set of files
RECURSIVE sorted(_)
sorted(S) ==
    IF S = {} THEN <<>>
    ELSE LET m == CHOOSE x \in S : \A y \in S \ {x} : LessThan(x, y)
         IN  <<m>> \o sorted(S \ {m})

\* get_migration_files(), past the directory check: sorted(glob("*.sql"))
migration_files_of(d) == sorted({f \in d : MatchesSql(f)})

\* str.rfind("."), as a 1-based position, 0 when there is no dot
RECURSIVE rfind_dot(_)
rfind_dot(name) ==
    IF name = <<>> THEN 0
    ELSE IF name[Len(name)] = 46 THEN Len(name)
    ELSE rfind_dot(SubSeq(name, 1, Len(name) - 1))

\* extract_migration_id(filename) = Path(filename).stem: the name up to its
\* last dot, unless that dot is the first or the last character
extract_migration_id(filename) ==
    LET j == rfind_dot(filename)
    IN  IF 1 < j /\ j < Len(filename)
        THEN SubSeq(filename, 1, j - 1)
        ELSE filename

\* the identities of the files of a directory that are migrations
Identities(d) == {extract_migration_id(f) : f \in {g \in d : MatchesSql(g)}}

AllIdentities == Identities(FileNames)

\* the text of a script: the file it was first written as, and its revision
BodyOf(f) == [origin |-> f, rev |-> 0]

\* no text: migration_sql before any file is read
NoBody == [origin |-> <<>>, rev |-> 0]

\* the schema objects the first k statements of a script text create
ObjectsOf(b, k) == {<<b, s>> : s \in 1..k}

(* ------------------------------------------------------------------ *)
(* IEEE_SRS_Model: values of the required sections                     *)
(* ------------------------------------------------------------------ *)

\* the six required fields of IEEE_SRS_Model, in the order of the class
SectionOrder ==
    <<"introduction", "overall_description", "system_features",
      "external_interface", "non_functional", "appendices">>

Sections == {SectionOrder[i] : i \in 1..Len(SectionOrder)}

\* the characters of the texts: a space and the letter "a"
Chars == {32, 97}

\* the characters below 128 that str.strip() removes
Whitespace == {9, 10, 11, 12, 13, 28, 29, 30, 31, 32}

\* the texts of at most MaxSectionLen characters
Texts == UNION {[1..n -> Chars] : n \in 0..MaxSectionLen}

\* values of a keyword argument: absent, None, an int, or a str
Missing == [type |-> "missing", text |-> <<>>]
None == [type |-> "NoneType", text |-> <<>>]
AnInt == [type |-> "int", text |-> <<>>]
Str(t) == [type |-> "str", text |-> t]

Values == {Missing, None, AnInt} \cup {Str(t) : t \in Texts}

\* the text every other section has: "a"
UsualValue == Str(<<97>>)

\* str.lstrip(): without the leading whitespace
RECURSIVE lstrip(_)
lstrip(t) ==
    IF t = <<>> THEN <<>>
    ELSE IF Head(t) \in Whitespace THEN lstrip(Tail(t))
    ELSE t

\* str.rstrip(): without the trailing whitespace
RECURSIVE rstrip(_)
rstrip(t) ==
    IF t = <<>> THEN <<>>
    ELSE IF t[Len(t)] \in Whitespace THEN rstrip(SubSeq(t, 1, Len(t) - 1))
    ELSE t

\* str.strip()
strip(t) == rstrip(lstrip(t))

\* a validator that checks the stripped text and returns the text as given
validate_required_sections_unstripped(v) ==
    IF v.type # "str" THEN [raises |-> TRUE, text |-> <<>>]
    ELSE IF strip(v.text) = <<>> THEN [raises |-> TRUE, text |-> <<>>]
    ELSE [raises |-> FALSE, text |-> v.text]

\* validate_required_sections(v): "raise" for a value that is not a str or
\* is empty once stripped, else the stripped text
validate_required_sections(v) ==
    IF v.type # "str" THEN [raises |-> TRUE, text |-> <<>>]
    ELSE IF strip(v.text) = <<>> THEN [raises |-> TRUE, text |-> <<>>]
    ELSE [raises |-> FALSE, text |-> strip(v.text)]

\* the error of one field, if any: a required field that is absent is
\* reported as missing and its validator is not called
FieldErrors(kw, s) ==
    IF kw[s] = Missing THEN <<[loc |-> s, type |-> "missing"]>>
    ELSE IF validate_required_sections(kw[s]).raises
         THEN <<[loc |-> s, type |-> "value_error"]>>
    ELSE <<>>

\* the errors of the fields SectionOrder[i..], in the order of the class
RECURSIVE ErrorsFrom(_, _)
ErrorsFrom(kw, i) ==
    IF i > Len(SectionOrder) THEN <<>>
    ELSE FieldErrors(kw, SectionOrder[i]) \o ErrorsFrom(kw, i + 1)

(* ------------------------------------------------------------------ *)
(* State                                                               *)
(* ------------------------------------------------------------------ *)

VARIABLES
    dirExists,          \* MIGRATIONS_DIR.exists()
    dir,                \* names of the entries of MIGRATIONS_DIR
    body,               \* per file name, the text of the script
    fsChanges,          \* number of edits and renames made so far
    renamed,            \* history: <<file, run>>, renamed when applied, for run
    tableExists,        \* database: table schema_migrations exists
    rows,               \* database: migration_id values of schema_migrations
    schema,             \* database: committed objects created by scripts
    conn,               \* "none", "open" or "closed"
    txnObjs,            \* open transaction: objects not yet committed
    txnRows,            \* open transaction: inserted rows not yet committed
    pc,                 \* position of the process in run_migrations
    dry_run,            \* argument of run_migrations
    migration_files,    \* local of run_migrations
    applied_migrations, \* local of run_migrations: the snapshot
    idx,                \* position of the for loop in migration_files
    applied_count,      \* local of run_migrations
    failed_count,       \* local of run_migrations
    cur,                \* migration_file of the apply_migration in progress
    migration_sql,      \* local of apply_migration: the text read
    result,             \* value returned by the last apply_migration
    outcome,            \* how the run ended: returned, exited, raised, killed
    ret,                \* the value returned, or the exit status
    runs,               \* number of invocations started
    committed,          \* history: per file, commits of its script so far
    log,                \* history of this run: decisions of the loop
    pre,                \* history: database when apply_migration was called
    runPre,             \* history: database at the start of the run
    prevFull,           \* history: the previous run was a full first run
    killedAt,           \* history: pc at which the process was interrupted
    trace,              \* history of this run: set-up steps performed
    summarized,         \* history of this run: the summary was printed
    failedAt,           \* history of this run: first step that raised, or "none"
    halted,             \* history: file the previous run stopped at, if any
    kwargs,             \* IEEE_SRS_Model(**kwargs): per section, the argument
    srs,                \* the IEEE_SRS_Model instance: per section, its text
    errors,             \* ValidationError.errors() of the last construction
    srs_pc              \* "call", "constructed" or "rejected"

vars == <<dirExists, dir, tableExists, rows, schema, conn, txnObjs, txnRows,
          pc, dry_run, migration_files, applied_migrations, idx,
          applied_count, failed_count, cur, result, outcome, ret, runs,
          committed, log, pre, runPre, prevFull, killedAt, body, fsChanges,
          renamed, migration_sql, trace, summarized, failedAt, halted,
          kwargs, srs, errors, srs_pc>>

fsVars == <<dirExists, dir, body, fsChanges, renamed>>
dbVars == <<tableExists, rows, schema>>
txnVars == <<txnObjs, txnRows>>
loopVars == <<dry_run, migration_files, applied_migrations, idx,
              applied_count, failed_count>>
endVars == <<outcome, ret, killedAt>>
runVars == <<runs, runPre, prevFull, halted>>
srsVars == <<kwargs, srs, errors, srs_pc>>

\* the committed state of the database
Db == [tableExists |-> tableExists, rows |-> rows, schema |-> schema]

Fresh(db) == db.rows = {} /\ db.schema = {}

\* no SRS document is being constructed
NoSrs ==
    /\ kwargs = [s \in Sections |-> Missing]
    /\ srs = [s \in Sections |-> <<>>]
    /\ errors = <<>>
    /\ srs_pc = "call"

\* the migration runner before its first run
InitRunner ==
    /\ dirExists \in BOOLEAN
    /\ dir \in SUBSET FileNames
    /\ (~dirExists => dir = {})
    /\ tableExists = FALSE
    /\ rows = {}
    /\ schema = {}
    /\ conn = "none"
    /\ txnObjs = {}
    /\ txnRows = {}
    /\ pc = "idle"
    /\ dry_run = FALSE
    /\ migration_files = <<>>
    /\ applied_migrations = {}
    /\ idx = 1
    /\ applied_count = 0
    /\ failed_count = 0
    /\ cur = <<>>
    /\ result = FALSE
    /\ outcome = "none"
    /\ ret = 0
    /\ runs = 0
    /\ committed = [f \in FileNames |-> 0]
    /\ log = <<>>
    /\ pre = [tableExists |-> FALSE, rows |-> {}, schema |-> {}]
    /\ runPre = [tableExists |-> FALSE, rows |-> {}, schema |-> {}]
    /\ prevFull = FALSE
    /\ killedAt = "none"
    /\ body = [f \in FileNames |-> BodyOf(f)]
    /\ fsChanges = 0
    /\ renamed = {}
    /\ migration_sql = NoBody
    /\ trace = <<>>
    /\ summarized = FALSE
    /\ failedAt = "none"
    /\ halted = <<>>

Init ==
    /\ InitRunner
    /\ NoSrs

(* ------------------------------------------------------------------ *)
(* run_migrations                                                      *)
(* ------------------------------------------------------------------ *)

\* pc values of a run that has left the loop
AfterLoop == {"summary", "close", "return", "done"}

\* the run stopped at a failing migration, migration_files[idx]: the loop
\* counted the failure, or the rollback of the failed call raised
HaltedOnFailure ==
    /\ pc \in AfterLoop
    /\ \/ failed_count = 1
       \/ /\ outcome = "raised"
          /\ log # <<>>
          /\ log[Len(log)].ev = "begin"

\* main(): a new process calls run_migrations(dry_run = d)
main(d) ==
    /\ pc \in {"idle", "done"}
    /\ runs < MaxRuns
    /\ runs' = runs + 1
    /\ runPre' = Db
    /\ prevFull' = (/\ pc = "done"
                    /\ outcome = "returned"
                    /\ ret = 0
                    /\ ~dry_run
                    /\ Fresh(runPre))
    /\ dry_run' = d
    /\ pc' = "connect"
    /\ conn' = "none"
    /\ txnObjs' = {}
    /\ txnRows' = {}
    /\ migration_files' = <<>>
    /\ applied_migrations' = {}
    /\ idx' = 1
    /\ applied_count' = 0
    /\ failed_count' = 0
    /\ cur' = <<>>
    /\ result' = FALSE
    /\ outcome' = "none"
    /\ ret' = 0
    /\ log' = <<>>
    /\ killedAt' = "none"
    /\ pre' = Db
    /\ UNCHANGED <<fsVars, dbVars, committed, srsVars>>
    /\ migration_sql' = NoBody
    /\ trace' = <<>>
    /\ summarized' = FALSE
    /\ failedAt' = "none"
    /\ halted' = IF pc = "done" /\ HaltedOnFailure
                 THEN migration_files[idx]
                 ELSE <<>>

\* get_db_connection() returns a connection
get_db_connection_ok ==
    /\ pc = "connect"
    /\ conn' = "open"
    /\ pc' = "list"
    /\ UNCHANGED <<fsVars, dbVars, txnVars, loopVars, cur, result, endVars,
                   runVars, srsVars, committed, log, pre>>
    /\ trace' = Append(trace, "connect")
    /\ UNCHANGED <<migration_sql, summarized, failedAt>>

\* get_db_connection() raises: run_migrations returns 1
get_db_connection_fail ==
    /\ pc = "connect"
    /\ pc' = "done"
    /\ outcome' = "returned"
    /\ ret' = 1
    /\ UNCHANGED <<fsVars, dbVars, conn, txnVars, loopVars, cur, result,
                   killedAt, runVars, srsVars, committed, log, pre>>
    /\ failedAt' = "connect"
    /\ UNCHANGED <<migration_sql, trace, summarized>>

\* a missing directory that is taken for an empty one
get_migration_files_missing_as_empty ==
    /\ pc = "list"
    /\ ~dirExists
    /\ pc' = "done"
    /\ outcome' = "returned"
    /\ ret' = 0
    /\ failedAt' = "list"
    /\ UNCHANGED <<fsVars, dbVars, conn, txnVars, loopVars, cur, result,
                   killedAt, runVars,
                   srsVars, committed, log, pre, migration_sql,
                   trace, summarized>>

\* get_migration_files(): the directory is missing, sys.exit(1)
get_migration_files_missing ==
    /\ pc = "list"
    /\ ~dirExists
    /\ pc' = "done"
    /\ outcome' = "exited"
    /\ ret' = 1
    /\ UNCHANGED <<fsVars, dbVars, conn, txnVars, loopVars, cur, result,
                   killedAt, runVars, srsVars, committed, log, pre>>
    /\ failedAt' = "list"
    /\ UNCHANGED <<migration_sql, trace, summarized>>

\* an empty list that is noticed only after the applied set was loaded
get_migration_files_empty_late ==
    /\ pc = "list"
    /\ dirExists
    /\ migration_files_of(dir) = <<>>
    /\ pc' = "create_table"
    /\ trace' = Append(trace, "list")
    /\ UNCHANGED <<fsVars, dbVars, conn, txnVars, loopVars, cur, result,
                   endVars, runVars,
                   srsVars, committed, log, pre, migration_sql,
                   summarized, failedAt>>

\* get_migration_files() returns no file: run_migrations returns 0
get_migration_files_empty ==
    /\ pc = "list"
    /\ dirExists
    /\ migration_files_of(dir) = <<>>
    /\ pc' = "done"
    /\ outcome' = "returned"
    /\ ret' = 0
    /\ UNCHANGED <<fsVars, dbVars, conn, txnVars, loopVars, cur, result,
                   killedAt, runVars, srsVars, committed, log, pre>>
    /\ trace' = Append(trace, "list")
    /\ UNCHANGED <<migration_sql, summarized, failedAt>>

\* a listing in descending order of name
get_migration_files_descending ==
    /\ pc = "list"
    /\ dirExists
    /\ migration_files_of(dir) # <<>>
    /\ migration_files' = sorted_descending({f \in dir : MatchesSql(f)})
    /\ pc' = "create_table"
    /\ trace' = Append(trace, "list")
    /\ UNCHANGED <<fsVars, dbVars, conn, txnVars, dry_run,
                   applied_migrations, idx, applied_count, failed_count,
                   cur, result, endVars, runVars, srsVars, committed, log,
                   pre, migration_sql, summarized, failedAt>>

\* get_migration_files() returns the sorted files
get_migration_files ==
    /\ pc = "list"
    /\ dirExists
    /\ migration_files_of(dir) # <<>>
    /\ migration_files' = migration_files_of(dir)
    /\ pc' = "create_table"
    /\ UNCHANGED <<fsVars, dbVars, conn, txnVars, dry_run,
                   applied_migrations, idx, applied_count, failed_count,
                   cur, result, endVars, runVars, srsVars, committed, log, pre>>
    /\ trace' = Append(trace, "list")
    /\ UNCHANGED <<migration_sql, summarized, failedAt>>

\* create_migrations_table(), called by get_applied_migrations():
\* CREATE TABLE IF NOT EXISTS schema_migrations, committed
create_migrations_table ==
    /\ pc = "create_table"
    /\ tableExists' = TRUE
    /\ pc' = "select"
    /\ UNCHANGED <<fsVars, rows, schema, conn, txnVars, loopVars, cur,
                   result, endVars, runVars, srsVars, committed, log, pre>>
    /\ trace' = Append(trace, "create_table")
    /\ UNCHANGED <<migration_sql, summarized, failedAt>>

\* create_migrations_table() raises; nothing catches it
create_migrations_table_fail ==
    /\ pc = "create_table"
    /\ pc' = "done"
    /\ outcome' = "raised"
    /\ ret' = 1
    /\ UNCHANGED <<fsVars, dbVars, conn, txnVars, loopVars, cur, result,
                   killedAt, runVars, srsVars, committed, log, pre>>
    /\ trace' = Append(trace, "create_table")
    /\ failedAt' = "create_table"
    /\ UNCHANGED <<migration_sql, summarized>>

\* a snapshot that is never loaded from the table
get_applied_migrations_empty ==
    /\ pc = "select"
    /\ applied_migrations' = {}
    /\ pc' = "loop"
    /\ UNCHANGED <<fsVars, dbVars, conn, txnVars, dry_run, migration_files,
                   idx, applied_count, failed_count, cur, result, endVars,
                   runVars, srsVars, committed, log, pre>>
    /\ trace' = Append(trace, "select")
    /\ UNCHANGED <<migration_sql, summarized, failedAt>>

\* get_applied_migrations(): SELECT migration_id FROM schema_migrations
get_applied_migrations ==
    /\ pc = "select"
    /\ applied_migrations' = rows
    /\ pc' = "loop"
    /\ UNCHANGED <<fsVars, dbVars, conn, txnVars, dry_run, migration_files,
                   idx, applied_count, failed_count, cur, result, endVars,
                   runVars, srsVars, committed, log, pre>>
    /\ trace' = Append(trace, "select")
    /\ UNCHANGED <<migration_sql, summarized, failedAt>>

\* a failed SELECT that is caught and taken for an empty applied set
get_applied_migrations_fail_swallowed ==
    /\ pc = "select"
    /\ applied_migrations' = {}
    /\ pc' = "loop"
    /\ trace' = Append(trace, "select")
    /\ failedAt' = "select"
    /\ UNCHANGED <<fsVars, dbVars, conn, txnVars, dry_run, migration_files,
                   idx, applied_count, failed_count, cur, result, endVars,
                   runVars,
                   srsVars, committed, log, pre, migration_sql, summarized>>

\* the SELECT of get_applied_migrations() raises; nothing catches it
get_applied_migrations_fail ==
    /\ pc = "select"
    /\ pc' = "done"
    /\ outcome' = "raised"
    /\ ret' = 1
    /\ UNCHANGED <<fsVars, dbVars, conn, txnVars, loopVars, cur, result,
                   killedAt, runVars, srsVars, committed, log, pre>>
    /\ trace' = Append(trace, "select")
    /\ failedAt' = "select"
    /\ UNCHANGED <<migration_sql, summarized>>

\* a skip that queries schema_migrations again for every file
loop_skip_refreshed ==
    /\ pc = "loop"
    /\ idx <= Len(migration_files)
    /\ extract_migration_id(migration_files[idx]) \in rows
    /\ log' = Append(log, [file |-> migration_files[idx], ev |-> "skipped"])
    /\ idx' = idx + 1
    /\ UNCHANGED <<fsVars, dbVars, conn, txnVars, pc, dry_run,
                   migration_files, applied_migrations, applied_count,
                   failed_count, cur, result, endVars, runVars,
                   srsVars, committed,
                   pre, migration_sql, trace, summarized, failedAt>>

\* a skip that depends on the text: an edited script is applied again
loop_skip_if_unchanged ==
    /\ pc = "loop"
    /\ idx <= Len(migration_files)
    /\ extract_migration_id(migration_files[idx]) \in applied_migrations
    /\ IF body[migration_files[idx]].rev = 0
       THEN /\ log' = Append(log, [file |-> migration_files[idx],
                                   ev |-> "skipped"])
            /\ idx' = idx + 1
            /\ UNCHANGED <<pc, cur, pre>>
       ELSE /\ log' = Append(log, [file |-> migration_files[idx],
                                   ev |-> "begin"])
            /\ cur' = migration_files[idx]
            /\ pre' = Db
            /\ pc' = "read"
            /\ UNCHANGED idx
    /\ UNCHANGED <<fsVars, dbVars, conn, txnVars, dry_run, migration_files,
                   applied_migrations, applied_count, failed_count, result,
                   endVars, runVars, srsVars, committed, migration_sql, trace,
                   summarized, failedAt>>

\* for loop: the migration is in the snapshot, continue
loop_skip ==
    /\ pc = "loop"
    /\ idx <= Len(migration_files)
    /\ extract_migration_id(migration_files[idx]) \in applied_migrations
    /\ log' = Append(log, [file |-> migration_files[idx], ev |-> "skipped"])
    /\ idx' = idx + 1
    /\ UNCHANGED <<fsVars, dbVars, conn, txnVars, pc, dry_run,
                   migration_files, applied_migrations, applied_count,
                   failed_count, cur, result, endVars, runVars,
                   srsVars, committed,
                   pre>>
    /\ UNCHANGED <<migration_sql, trace, summarized, failedAt>>

\* for loop, dry run: "Would apply", applied_count += 1
loop_would_apply ==
    /\ pc = "loop"
    /\ idx <= Len(migration_files)
    /\ extract_migration_id(migration_files[idx]) \notin applied_migrations
    /\ dry_run
    /\ log' = Append(log,
                     [file |-> migration_files[idx], ev |-> "would_apply"])
    /\ applied_count' = applied_count + 1
    /\ idx' = idx + 1
    /\ UNCHANGED <<fsVars, dbVars, conn, txnVars, pc, dry_run,
                   migration_files, applied_migrations, failed_count, cur,
                   result, endVars, runVars, srsVars, committed, pre>>
    /\ UNCHANGED <<migration_sql, trace, summarized, failedAt>>

\* a loop that calls apply_migration whatever dry_run is
apply_migration_call_any_mode ==
    /\ pc = "loop"
    /\ idx <= Len(migration_files)
    /\ extract_migration_id(migration_files[idx]) \notin applied_migrations
    /\ cur' = migration_files[idx]
    /\ pre' = Db
    /\ log' = Append(log, [file |-> migration_files[idx], ev |-> "begin"])
    /\ pc' = "read"
    /\ UNCHANGED <<fsVars, dbVars, conn, txnVars, loopVars, result, endVars,
                   runVars, srsVars, committed>>
    /\ UNCHANGED <<migration_sql, trace, summarized, failedAt>>

\* a loop that goes by the text: a script whose objects exist is skipped
apply_migration_call_by_text ==
    /\ pc = "loop"
    /\ idx <= Len(migration_files)
    /\ extract_migration_id(migration_files[idx]) \notin applied_migrations
    /\ ~dry_run
    /\ IF ObjectsOf(body[migration_files[idx]], StmtsPerScript)
              \subseteq schema
       THEN /\ log' = Append(log, [file |-> migration_files[idx],
                                   ev |-> "skipped"])
            /\ idx' = idx + 1
            /\ UNCHANGED <<pc, cur, pre>>
       ELSE /\ log' = Append(log, [file |-> migration_files[idx],
                                   ev |-> "begin"])
            /\ cur' = migration_files[idx]
            /\ pre' = Db
            /\ pc' = "read"
            /\ UNCHANGED idx
    /\ UNCHANGED <<fsVars, dbVars, conn, txnVars, dry_run, migration_files,
                   applied_migrations, applied_count, failed_count, result,
                   endVars, runVars, srsVars, committed, migration_sql, trace,
                   summarized, failedAt>>

apply_migration_call ==
    /\ pc = "loop"
    /\ idx <= Len(migration_files)
    /\ extract_migration_id(migration_files[idx]) \notin applied_migrations
    /\ ~dry_run
    /\ cur' = migration_files[idx]
    /\ pre' = Db
    /\ log' = Append(log, [file |-> migration_files[idx], ev |-> "begin"])
    /\ pc' = "read"
    /\ UNCHANGED <<fsVars, dbVars, conn, txnVars, loopVars, result, endVars,
                   runVars, srsVars, committed>>
    /\ UNCHANGED <<migration_sql, trace, summarized, failedAt>>

\* apply_migration: open() and f.read() succeed
apply_migration_read ==
    /\ pc = "read"
    /\ pc' = "execute"
    /\ UNCHANGED <<fsVars, dbVars, conn, txnVars, loopVars, cur, result,
                   endVars, runVars, srsVars, committed, log, pre>>
    /\ migration_sql' = body[cur]
    /\ UNCHANGED <<trace, summarized, failedAt>>

\* apply_migration: open() or f.read() raises
apply_migration_read_fail ==
    /\ pc = "read"
    /\ pc' = "except"
    /\ UNCHANGED <<fsVars, dbVars, conn, txnVars, loopVars, cur, result,
                   endVars, runVars, srsVars, committed, log, pre>>
    /\ failedAt' = "read"
    /\ UNCHANGED <<migration_sql, trace, summarized>>

\* apply_migration: cur.execute(migration_sql) runs k statements of the
\* script in the open transaction; it raises when k is not all of them
apply_migration_execute(k) ==
    /\ pc = "execute"
    /\ txnObjs' = txnObjs \cup ObjectsOf(migration_sql, k)
    /\ pc' = IF k = StmtsPerScript THEN "commit" ELSE "except"
    /\ UNCHANGED <<fsVars, dbVars, conn, txnRows, loopVars, cur, result,
                   endVars, runVars, srsVars, committed, log, pre>>
    /\ failedAt' = IF k = StmtsPerScript THEN failedAt
                   ELSE IF k = 0 THEN "execute"
                   ELSE "execute_later"
    /\ UNCHANGED <<migration_sql, trace, summarized>>

\* apply_migration: conn.commit() after the script
apply_migration_commit ==
    /\ pc = "commit"
    /\ schema' = schema \cup txnObjs
    /\ rows' = rows \cup txnRows
    /\ txnObjs' = {}
    /\ txnRows' = {}
    /\ committed' = [committed EXCEPT ![cur] = @ + 1]
    /\ pc' = "mark"
    /\ UNCHANGED <<fsVars, tableExists, conn, loopVars, cur, result, endVars,
                   runVars, srsVars, log, pre>>
    /\ UNCHANGED <<migration_sql, trace, summarized, failedAt>>

\* a failed commit of the script that is ignored: the migration is marked
apply_migration_commit_fail_ignored ==
    /\ pc = "commit"
    /\ txnObjs' = {}
    /\ pc' = "mark"
    /\ UNCHANGED <<fsVars, dbVars, conn, txnRows, loopVars, cur, result,
                   endVars, runVars, srsVars, committed, log, pre>>
    /\ UNCHANGED <<migration_sql, trace, summarized, failedAt>>

\* apply_migration: conn.commit() after the script raises
apply_migration_commit_fail ==
    /\ pc = "commit"
    /\ pc' = "except"
    /\ UNCHANGED <<fsVars, dbVars, conn, txnVars, loopVars, cur, result,
                   endVars, runVars, srsVars, committed, log, pre>>
    /\ failedAt' = "commit"
    /\ UNCHANGED <<migration_sql, trace, summarized>>

\* the INSERT on a connection in autocommit mode: the row is stored at once
mark_migration_applied_insert_autocommit ==
    /\ pc = "mark"
    /\ rows' = rows \cup {extract_migration_id(cur)}
    /\ pc' = "mark_commit"
    /\ UNCHANGED <<fsVars, tableExists, schema, conn, txnVars, loopVars, cur,
                   result, endVars, runVars, srsVars, committed, log, pre>>
    /\ UNCHANGED <<migration_sql, trace, summarized, failedAt>>

\* an INSERT without ON CONFLICT DO NOTHING: a row that exists makes it
\* raise a unique violation
mark_migration_applied_insert_plain ==
    /\ pc = "mark"
    /\ IF extract_migration_id(cur) \in rows
       THEN /\ pc' = "except"
            /\ failedAt' = "mark"
            /\ UNCHANGED txnRows
       ELSE /\ txnRows' = txnRows \cup {extract_migration_id(cur)}
            /\ pc' = "mark_commit"
            /\ UNCHANGED failedAt
    /\ UNCHANGED <<fsVars, dbVars, conn, txnObjs, loopVars, cur, result,
                   endVars, runVars, srsVars, committed, log, pre,
                   migration_sql, trace, summarized>>

\* mark_migration_applied: INSERT INTO schema_migrations ... ON CONFLICT
\* DO NOTHING, in a new transaction
mark_migration_applied_insert ==
    /\ pc = "mark"
    /\ txnRows' = txnRows \cup ({extract_migration_id(cur)} \ rows)
    /\ pc' = "mark_commit"
    /\ UNCHANGED <<fsVars, dbVars, conn, txnObjs, loopVars, cur, result,
                   endVars, runVars, srsVars, committed, log, pre>>
    /\ UNCHANGED <<migration_sql, trace, summarized, failedAt>>

\* mark_migration_applied: the INSERT raises
mark_migration_applied_insert_fail ==
    /\ pc = "mark"
    /\ pc' = "except"
    /\ UNCHANGED <<fsVars, dbVars, conn, txnVars, loopVars, cur, result,
                   endVars, runVars, srsVars, committed, log, pre>>
    /\ failedAt' = "mark"
    /\ UNCHANGED <<migration_sql, trace, summarized>>

\* a commit of the row that is lost without an error
mark_migration_applied_commit_lost ==
    /\ pc = "mark_commit"
    /\ txnObjs' = {}
    /\ txnRows' = {}
    /\ pc' = "success"
    /\ UNCHANGED <<fsVars, dbVars, conn, loopVars, cur, result, endVars,
                   runVars, srsVars, committed, log, pre, migration_sql,
                   trace, summarized, failedAt>>

\* mark_migration_applied: conn.commit() stores the row
mark_migration_applied_commit ==
    /\ pc = "mark_commit"
    /\ schema' = schema \cup txnObjs
    /\ rows' = rows \cup txnRows
    /\ txnObjs' = {}
    /\ txnRows' = {}
    /\ pc' = "success"
    /\ UNCHANGED <<fsVars, tableExists, conn, loopVars, cur, result, endVars,
                   runVars, srsVars, committed, log, pre>>
    /\ UNCHANGED <<migration_sql, trace, summarized, failedAt>>

\* apply_migration: reports the migration as applied and returns True
apply_migration_success ==
    /\ pc = "success"
    /\ result' = TRUE
    /\ log' = Append(log, [file |-> cur, ev |-> "applied"])
    /\ pc' = "returned"
    /\ UNCHANGED <<fsVars, dbVars, conn, txnVars, loopVars, cur, endVars,
                   runVars, srsVars, committed, pre>>
    /\ UNCHANGED <<migration_sql, trace, summarized, failedAt>>

\* mark_migration_applied: conn.commit() raises
mark_migration_applied_commit_fail ==
    /\ pc = "mark_commit"
    /\ pc' = "except"
    /\ UNCHANGED <<fsVars, dbVars, conn, txnVars, loopVars, cur, result,
                   endVars, runVars, srsVars, committed, log, pre>>
    /\ failedAt' = "mark_commit"
    /\ UNCHANGED <<migration_sql, trace, summarized>>

\* an except clause that commits what the script did before it raised
apply_migration_except_commit ==
    /\ pc = "except"
    /\ schema' = schema \cup txnObjs
    /\ txnObjs' = {}
    /\ txnRows' = {}
    /\ result' = FALSE
    /\ log' = Append(log, [file |-> cur, ev |-> "failed"])
    /\ pc' = "returned"
    /\ UNCHANGED <<fsVars, tableExists, rows, conn, loopVars, cur, endVars,
                   runVars,
                   srsVars, committed, pre, migration_sql, trace, summarized,
                   failedAt>>

\* an except clause that records the failing migration as applied
apply_migration_except_recorded ==
    /\ pc = "except"
    /\ txnObjs' = {}
    /\ txnRows' = {}
    /\ rows' = rows \cup {extract_migration_id(cur)}
    /\ result' = FALSE
    /\ log' = Append(log, [file |-> cur, ev |-> "failed"])
    /\ pc' = "returned"
    /\ UNCHANGED <<fsVars, tableExists, schema, conn, loopVars, cur, endVars,
                   runVars,
                   srsVars, committed, pre, migration_sql, trace, summarized,
                   failedAt>>

\* apply_migration, except clauses: conn.rollback(), return False
apply_migration_except ==
    /\ pc = "except"
    /\ txnObjs' = {}
    /\ txnRows' = {}
    /\ result' = FALSE
    /\ log' = Append(log, [file |-> cur, ev |-> "failed"])
    /\ pc' = "returned"
    /\ UNCHANGED <<fsVars, dbVars, conn, loopVars, cur, endVars, runVars,
                   srsVars,
                   committed, pre>>
    /\ UNCHANGED <<migration_sql, trace, summarized, failedAt>>

\* apply_migration, except clauses: conn.rollback() raises. Nothing catches
\* the exception: it leaves apply_migration and run_migrations, the process
\* ends with a traceback and status 1, and the server discards the
\* transaction of the connection that is gone
apply_migration_except_raises ==
    /\ pc = "except"
    /\ txnObjs' = {}
    /\ txnRows' = {}
    /\ outcome' = "raised"
    /\ ret' = 1
    /\ pc' = "done"
    /\ UNCHANGED <<fsVars, dbVars, conn, loopVars, cur, result, killedAt,
                   runVars, srsVars, committed, log, pre, migration_sql,
                   trace, summarized, failedAt>>

\* for loop: apply_migration returned True, applied_count += 1
loop_applied ==
    /\ pc = "returned"
    /\ result
    /\ applied_count' = applied_count + 1
    /\ idx' = idx + 1
    /\ cur' = <<>>
    /\ pc' = "loop"
    /\ UNCHANGED <<fsVars, dbVars, conn, txnVars, dry_run, migration_files,
                   applied_migrations, failed_count, result, endVars,
                   runVars, srsVars, committed, log, pre>>
    /\ UNCHANGED <<migration_sql, trace, summarized, failedAt>>

\* a loop that calls apply_migration once more for a file that failed
loop_failed_retry ==
    /\ pc = "returned"
    /\ ~result
    /\ failed_count' = failed_count + 1
    /\ cur' = <<>>
    /\ pc' = IF failed_count = 0 THEN "loop" ELSE "summary"
    /\ UNCHANGED <<fsVars, dbVars, conn, txnVars, dry_run, migration_files,
                   applied_migrations, idx, applied_count, result, endVars,
                   runVars, srsVars, committed, log, pre, migration_sql, trace,
                   summarized, failedAt>>

\* a loop that counts the failure and goes on with the next file
loop_failed_continue ==
    /\ pc = "returned"
    /\ ~result
    /\ failed_count' = failed_count + 1
    /\ idx' = idx + 1
    /\ cur' = <<>>
    /\ pc' = "loop"
    /\ UNCHANGED <<fsVars, dbVars, conn, txnVars, dry_run, migration_files,
                   applied_migrations, applied_count, result, endVars,
                   runVars, srsVars, committed, log, pre>>
    /\ UNCHANGED <<migration_sql, trace, summarized, failedAt>>

\* for loop: apply_migration returned False, failed_count += 1, break
loop_failed ==
    /\ pc = "returned"
    /\ ~result
    /\ failed_count' = failed_count + 1
    /\ cur' = <<>>
    /\ pc' = "summary"
    /\ UNCHANGED <<fsVars, dbVars, conn, txnVars, dry_run, migration_files,
                   applied_migrations, idx, applied_count, result, endVars,
                   runVars, srsVars, committed, log, pre>>
    /\ UNCHANGED <<migration_sql, trace, summarized, failedAt>>

\* for loop: migration_files is exhausted
loop_end ==
    /\ pc = "loop"
    /\ idx > Len(migration_files)
    /\ pc' = "summary"
    /\ UNCHANGED <<fsVars, dbVars, conn, txnVars, loopVars, cur, result,
                   endVars, runVars, srsVars, committed, log, pre>>
    /\ UNCHANGED <<migration_sql, trace, summarized, failedAt>>

\* run_migrations: the summary of the run is printed
summary ==
    /\ pc = "summary"
    /\ summarized' = TRUE
    /\ pc' = "close"
    /\ UNCHANGED <<fsVars, dbVars, conn, txnVars, loopVars, cur, result,
                   endVars, runVars, srsVars, committed, log, pre>>
    /\ UNCHANGED <<migration_sql, trace, failedAt>>

\* run_migrations: conn.close()
conn_close ==
    /\ pc = "close"
    /\ conn' = "closed"
    /\ txnObjs' = {}
    /\ txnRows' = {}
    /\ pc' = "return"
    /\ UNCHANGED <<fsVars, dbVars, loopVars, cur, result, endVars, runVars,
                   srsVars, committed, log, pre>>
    /\ UNCHANGED <<migration_sql, trace, summarized, failedAt>>

\* a return of the number of migrations applied
run_migrations_return_applied_count ==
    /\ pc = "return"
    /\ outcome' = "returned"
    /\ ret' = applied_count
    /\ pc' = "done"
    /\ UNCHANGED <<fsVars, dbVars, conn, txnVars, loopVars, cur, result,
                   killedAt, runVars, srsVars, committed, log, pre,
                   migration_sql, trace, summarized, failedAt>>

\* run_migrations: return 0 if failed_count == 0 else 1, and main passes
\* the value to sys.exit
run_migrations_return ==
    /\ pc = "return"
    /\ outcome' = "returned"
    /\ ret' = IF failed_count = 0 THEN 0 ELSE 1
    /\ pc' = "done"
    /\ UNCHANGED <<fsVars, dbVars, conn, txnVars, loopVars, cur, result,
                   killedAt, runVars, srsVars, committed, log, pre>>
    /\ UNCHANGED <<migration_sql, trace, summarized, failedAt>>

\* the process is ended by signal sig (SIGINT surfaces as KeyboardInterrupt,
\* which no except clause catches); its status is that of a process killed
\* by the signal, and its open transaction is never committed
interrupt(sig) ==
    /\ pc \notin {"idle", "done"}
    /\ killedAt' = pc
    /\ outcome' = "killed"
    /\ ret' = 0 - sig
    /\ txnObjs' = {}
    /\ txnRows' = {}
    /\ pc' = "done"
    /\ UNCHANGED <<fsVars, dbVars, conn, loopVars, cur, result, runVars,
                   srsVars,
                   committed, log, pre>>
    /\ UNCHANGED <<migration_sql, trace, summarized, failedAt>>

(* ------------------------------------------------------------------ *)
(* The migrations directory between two runs                           *)
(* ------------------------------------------------------------------ *)

\* Files change after a run has ended and before the next run looks at the
\* directory (the new process is about to connect): a run lists the
\* directory once and reads a script only when applying it. Before the
\* first run the directory is any directory Init allows.

\* the text of migration file f, whose identity is recorded, is edited on
\* disk
edit_file(f) ==
    /\ pc = "connect"
    /\ runs > 1
    /\ fsChanges < MaxFsChanges
    /\ f \in dir
    /\ MatchesSql(f)
    /\ body[f].rev = 0
    /\ extract_migration_id(f) \in rows
    /\ body' = [body EXCEPT ![f].rev = @ + 1]
    /\ fsChanges' = fsChanges + 1
    /\ UNCHANGED <<dirExists, dir, renamed, dbVars, conn, txnVars, pc,
                   loopVars, cur, result, endVars, runVars,
                   srsVars, committed, log,
                   pre, migration_sql, trace, summarized, failedAt>>

\* migration file f is renamed to g, its text unchanged
rename_file(f, g) ==
    /\ pc = "connect"
    /\ runs > 1
    /\ fsChanges < MaxFsChanges
    /\ f \in dir
    /\ MatchesSql(f)
    /\ g \in FileNames \ dir
    /\ MatchesSql(g)
    /\ dir' = (dir \ {f}) \cup {g}
    /\ body' = [body EXCEPT ![g] = body[f]]
    /\ renamed' = {e \in renamed : e[1] # f} \cup
                  (IF \/ \E e \in renamed : e[1] = f
                      \/ (committed[f] > 0 /\ extract_migration_id(f) \in rows)
                   THEN {<<g, runs>>} ELSE {})
    /\ fsChanges' = fsChanges + 1
    /\ UNCHANGED <<dirExists, dbVars, conn, txnVars, pc, loopVars, cur,
                   result, endVars, runVars, srsVars, committed, log, pre,
                   migration_sql, trace, summarized, failedAt>>

(* ------------------------------------------------------------------ *)
(* Other invocations of the runner on the same database                *)
(* ------------------------------------------------------------------ *)

\* the other invocation runs while a run of this process is under way
OtherWriterActive == pc \notin {"idle", "done"}

\* another invocation of the runner, with its own snapshot of the applied
\* set, has come to file f of the catalog: it goes through the files in
\* sorted order and stops at a failure, so every file before f is recorded
OtherWriterReached(f) ==
    /\ dirExists
    /\ f \in dir
    /\ MatchesSql(f)
    /\ \A g \in dir :
           (MatchesSql(g) /\ LessThan(g, f)) =>
               extract_migration_id(g) \in rows

\* the other invocation found migration files and creates the bookkeeping
\* table
other_writer_create_table ==
    /\ OtherWriterActive
    /\ dirExists
    /\ \E f \in dir : MatchesSql(f)
    /\ ~tableExists
    /\ tableExists' = TRUE
    /\ UNCHANGED <<fsVars, rows, schema, conn, txnVars, pc, loopVars, cur,
                   result, endVars, runVars, srsVars, committed, log, pre,
                   migration_sql, trace, summarized, failedAt>>

\* the other invocation executes the script of f and commits it
\* (committed counts the commits of this process only)
other_writer_execute(f) ==
    /\ OtherWriterActive
    /\ tableExists
    /\ OtherWriterReached(f)
    /\ schema' = schema \cup ObjectsOf(body[f], StmtsPerScript)
    /\ UNCHANGED <<fsVars, tableExists, rows, conn, txnVars, pc, loopVars,
                   cur, result, endVars, runVars, srsVars, committed, log,
                   pre, migration_sql, trace, summarized, failedAt>>

\* the other invocation records the identity id of a script it committed;
\* while this process holds an uncommitted row of id the INSERT of the
\* other one waits, and with a row of id stored it inserts nothing
other_writer_insert(id) ==
    /\ OtherWriterActive
    /\ tableExists
    /\ id \notin rows
    /\ id \notin txnRows
    /\ \E f \in dir :
           /\ OtherWriterReached(f)
           /\ extract_migration_id(f) = id
           /\ ObjectsOf(body[f], StmtsPerScript) \subseteq schema
    /\ rows' = rows \cup {id}
    /\ UNCHANGED <<fsVars, tableExists, schema, conn, txnVars, pc, loopVars,
                   cur, result, endVars, runVars, srsVars, committed, log, pre,
                   migration_sql, trace, summarized, failedAt>>

(* ------------------------------------------------------------------ *)
(* IEEE_SRS_Model                                                      *)
(* ------------------------------------------------------------------ *)

\* IEEE_SRS_Model(**kwargs): every required field is validated; the model
\* is built when no field has an error, else ValidationError is raised
\* with the errors of all fields
IEEE_SRS_Model ==
    /\ srs_pc = "call"
    /\ errors' = ErrorsFrom(kwargs, 1)
    /\ IF ErrorsFrom(kwargs, 1) = <<>>
       THEN /\ srs' = [s \in Sections |->
                          validate_required_sections(kwargs[s]).text]
            /\ srs_pc' = "constructed"
       ELSE /\ srs_pc' = "rejected"
            /\ UNCHANGED srs
    /\ UNCHANGED <<kwargs, fsVars, dbVars, conn, txnVars, pc, loopVars, cur,
                   result, endVars, runVars, committed, log, pre,
                   migration_sql, trace, summarized, failedAt>>

\* IEEE_SRS_Model(**m.model_dump()): the sections of a model are given to
\* the constructor again
model_dump ==
    /\ srs_pc = "constructed"
    /\ kwargs' = [s \in Sections |-> Str(srs[s])]
    /\ srs_pc' = "call"
    /\ UNCHANGED <<srs, errors, fsVars, dbVars, conn, txnVars, pc, loopVars,
                   cur, result, endVars, runVars, committed, log, pre,
                   migration_sql, trace, summarized, failedAt>>

\* the arguments of a construction: at most MaxOddSections sections have
\* any value, the others have the usual text
InitSrs ==
    /\ InitRunner
    /\ ~dirExists
    /\ \E S \in SUBSET Sections :
           /\ Cardinality(S) <= MaxOddSections
           /\ \E f \in [S -> Values] :
                  kwargs = [s \in Sections |->
                               IF s \in S THEN f[s] ELSE UsualValue]
    /\ srs = [s \in Sections |-> <<>>]
    /\ errors = <<>>
    /\ srs_pc = "call"

NextSrs ==
    \/ IEEE_SRS_Model
    \/ model_dump

SpecSrs == InitSrs /\ [][NextSrs]_vars

\* the steps of a process that is not interrupted
RunnerNext ==
    \/ \E d \in BOOLEAN : main(d)
    \/ get_db_connection_ok
    \/ get_db_connection_fail
    \/ get_migration_files_missing
    \/ get_migration_files_empty
    \/ get_migration_files
    \/ create_migrations_table
    \/ create_migrations_table_fail
    \/ get_applied_migrations
    \/ get_applied_migrations_fail
    \/ loop_skip
    \/ loop_would_apply
    \/ apply_migration_call
    \/ apply_migration_read
    \/ apply_migration_read_fail
    \/ \E k \in 0..StmtsPerScript : apply_migration_execute(k)
    \/ apply_migration_commit
    \/ apply_migration_commit_fail
    \/ mark_migration_applied_insert
    \/ mark_migration_applied_insert_fail
    \/ mark_migration_applied_commit
    \/ mark_migration_applied_commit_fail
    \/ apply_migration_success
    \/ apply_migration_except
    \/ apply_migration_except_raises
    \/ loop_applied
    \/ loop_failed
    \/ loop_end
    \/ summary
    \/ conn_close
    \/ run_migrations_return

Next ==
    \/ RunnerNext
    \/ \E sig \in Signals : interrupt(sig)

Spec == Init /\ [][Next]_vars

\* one run of this process, with other invocations of the runner that work
\* on the same database while it runs. The other invocations run the same
\* code, so every state of the database that earlier runs of this process
\* could have left is also left by them before this run loads its snapshot
NextWriter ==
    \/ Next /\ runs' = 1
    \/ other_writer_create_table
    \/ \E f \in FileNames : other_writer_execute(f)
    \/ \E id \in AllIdentities : other_writer_insert(id)

SpecWriter == Init /\ [][NextWriter]_vars

\* the runner, never interrupted, with a migrations directory that holds
\* migration files only and changes between runs
InitFs ==
    /\ Init
    /\ \A f \in dir : MatchesSql(f)

NextFs ==
    \/ RunnerNext
    \/ \E f \in FileNames : edit_file(f)
    \/ \E f, g \in FileNames : rename_file(f, g)

SpecFs == InitFs /\ [][NextFs]_vars

(* ------------------------------------------------------------------ *)
(* Repeated runs until nothing fails any more                          *)
(* ------------------------------------------------------------------ *)

\* the steps at which a call raises or the process is interrupted
Failing ==
    \/ get_db_connection_fail
    \/ create_migrations_table_fail
    \/ get_applied_migrations_fail
    \/ apply_migration_read_fail
    \/ \E k \in 0..(StmtsPerScript - 1) : apply_migration_execute(k)
    \/ apply_migration_commit_fail
    \/ mark_migration_applied_insert_fail
    \/ mark_migration_applied_commit_fail
    \/ apply_migration_except_raises
    \/ \E sig \in Signals : interrupt(sig)

\* the steps of a process in which every call succeeds
Succeeding ==
    \/ get_db_connection_ok
    \/ get_migration_files_missing
    \/ get_migration_files_empty
    \/ get_migration_files
    \/ create_migrations_table
    \/ get_applied_migrations
    \/ loop_skip
    \/ loop_would_apply
    \/ apply_migration_call
    \/ apply_migration_read
    \/ apply_migration_execute(StmtsPerScript)
    \/ apply_migration_commit
    \/ mark_migration_applied_insert
    \/ mark_migration_applied_commit
    \/ apply_migration_success
    \/ apply_migration_except
    \/ loop_applied
    \/ loop_failed
    \/ loop_end
    \/ summary
    \/ conn_close
    \/ run_migrations_return

\* the operator runs the command again and again; the causes of failure are
\* fixed before the last run, which is not a dry run
NextRecovery ==
    \/ \E d \in BOOLEAN : main(d) /\ (d => runs + 1 < MaxRuns)
    \/ Succeeding
    \/ runs < MaxRuns /\ Failing

\* a process that is started runs to its end, and the command is run again
SpecRecovery == Init /\ [][NextRecovery]_vars /\ WF_vars(NextRecovery)

(* ------------------------------------------------------------------ *)
(* Properties                                                          *)
(* ------------------------------------------------------------------ *)

\* pc values inside a call of apply_migration
InApply ==
    {"read", "execute", "commit", "mark", "mark_commit", "success", "except"}

\* the files of this run's log for which apply_migration was called
Begun == {log[i].file : i \in {j \in 1..Len(log) : log[j].ev = "begin"}}

\* C1: stop on first failure. Once apply_migration has failed in a run, the
\* failure is the last decision of that run's loop: the process is past the
\* call and never inside another apply_migration, the failing file is the
\* one the loop stopped at, every file for which apply_migration was called
\* is at or before it in catalog order, no later file was attempted, and
\* schema_migrations holds the rows it held when the failing call began.
\* The same holds of a run that ended because the rollback of the failing
\* call raised.
C1_StopOnFirstFailure ==
    /\ \A i \in 1..Len(log) :
           log[i].ev = "failed" =>
               /\ i = Len(log)
               /\ pc \in {"returned"} \cup AfterLoop
               /\ idx <= Len(migration_files)
               /\ log[i].file = migration_files[idx]
               /\ \A f \in Begun : \E p \in 1..idx : migration_files[p] = f
               /\ \A p \in (idx + 1)..Len(migration_files) :
                      migration_files[p] \notin Begun
               /\ rows = pre.rows
    /\ HaltedOnFailure =>
           /\ idx <= Len(migration_files)
           /\ \A f \in Begun : \E p \in 1..idx : migration_files[p] = f
           /\ \A p \in (idx + 1)..Len(migration_files) :
                  /\ migration_files[p] \notin Begun
                  /\ \A i \in 1..Len(log) : log[i].file # migration_files[p]
           /\ rows = pre.rows

\* C1 witness: of three migrations the second failed; the run is over, the
\* first is recorded, the second is not, the third was never attempted
C1_Witness ==
    /\ pc = "done"
    /\ outcome = "returned"
    /\ runs = 1
    /\ Len(migration_files) = 3
    /\ failed_count = 1
    /\ idx = 2
    /\ rows = {extract_migration_id(migration_files[1])}
    /\ migration_files[3] \notin Begun
    /\ committed[migration_files[3]] = 0

\* C2: every identity in schema_migrations is the identity of a migration
\* file whose script was executed and committed, and whose objects are in
\* the database.
C2_RecordedOnlyIfCommitted ==
    \A id \in rows :
        \E f \in dir :
            /\ MatchesSql(f)
            /\ extract_migration_id(f) = id
            /\ committed[f] > 0
            /\ ObjectsOf(body[f], StmtsPerScript) \subseteq schema

\* C2 witness: after a run in which a script or an insert failed, one
\* identity is recorded and another one is not
C2_Witness ==
    /\ pc = "done"
    /\ failed_count = 1
    /\ rows # {}
    /\ Identities(dir) \ rows # {}

\* C3 (as claimed): whenever apply_migration has returned False, the schema
\* of the database is what it was when the call began.
C3_FailedLeavesSchemaUnchanged ==
    (pc = "returned" /\ ~result) => schema = pre.schema

\* C4: whenever apply_migration has returned False, schema_migrations holds
\* exactly the rows it held when the call began; no row of the failing
\* identity was added.
C4_FailedLeavesBookkeepingUnchanged ==
    (pc = "returned" /\ ~result) =>
        /\ rows = pre.rows
        /\ (extract_migration_id(cur) \in rows
                => extract_migration_id(cur) \in pre.rows)

\* C4 witness: apply_migration returned False after its script was committed
\* (the failure was in mark_migration_applied) and its identity has no row
C4_Witness ==
    /\ pc = "returned"
    /\ ~result
    /\ schema # pre.schema
    /\ extract_migration_id(cur) \notin rows

\* C5 (as claimed): during and after a dry run the database is identical to
\* the database at the start of the run, the bookkeeping table included.
C5_DryRunMutatesNothing ==
    (dry_run /\ pc # "idle") => Db = runPre

\* C6: in a dry run no script is read or executed and no row is inserted:
\* apply_migration is never called, nothing is pending in a transaction,
\* rows and script objects are those of the start of the run, and on a
\* fresh database the row count stays 0 and no script object exists.
C6_DryRunExecutesNothing ==
    (dry_run /\ pc # "idle") =>
        /\ pc \notin InApply
        /\ Begun = {}
        /\ txnObjs = {}
        /\ txnRows = {}
        /\ rows = runPre.rows
        /\ schema = runPre.schema
        /\ (Fresh(runPre) => Cardinality(rows) = 0 /\ schema = {})

\* C6 witness: a dry run on a fresh database ended after reporting two
\* migrations it would apply
C6_Witness ==
    /\ dry_run
    /\ pc = "done"
    /\ outcome = "returned"
    /\ Fresh(runPre)
    /\ applied_count = 2
    /\ Len(migration_files) = 2

\* what the claim C7 says of a second run up to the row count
SecondRunIsIdle ==
    /\ Begun = {}
    /\ pc \notin InApply
    /\ applied_count = 0
    /\ failed_count = 0
    /\ Db = runPre
    /\ \A i \in 1..Len(log) : log[i].ev = "skipped"
    /\ (pc = "summary" => Len(log) = Len(migration_files))

\* C7 (as claimed): in a non-dry run that follows a non-dry run on a fresh
\* database in which every migration succeeded, no script is executed,
\* nothing is applied, every migration is skipped, the database is unchanged
\* and schema_migrations has as many rows as there are migration files.
C7_SecondRunRowsEqualFiles ==
    (prevFull /\ ~dry_run) =>
        /\ SecondRunIsIdle
        /\ (dirExists =>
                Cardinality(rows) = Len(migration_files_of(dir)))

\* C7 (amended): the same, with as many rows as there are distinct
\* identities among the migration files.
C7_SecondRunIdempotent ==
    (prevFull /\ ~dry_run) =>
        /\ SecondRunIsIdle
        /\ (dirExists => Cardinality(rows) = Cardinality(Identities(dir)))
        /\ (dirExists => rows = Identities(dir))

\* C7 witness: the second run over two applied migrations reached its
\* summary with both skipped
C7_Witness ==
    /\ prevFull
    /\ ~dry_run
    /\ pc = "done"
    /\ outcome = "returned"
    /\ conn = "closed"
    /\ Len(migration_files) = 2
    /\ Len(log) = 2
    /\ Cardinality(rows) = 2

\* C8 (as claimed): the script of each migration file is executed and
\* committed at most once, over all runs.
C8_AtMostOnce ==
    \A f \in FileNames : committed[f] <= 1

\* C9 (as claimed): whenever no apply_migration call is in progress and the
\* process was not interrupted inside one, every migration whose script is
\* committed has its identity in schema_migrations.
C9_CompletedIsRecorded ==
    (pc \notin InApply /\ killedAt \notin InApply) =>
        \A f \in FileNames :
            committed[f] > 0 => extract_migration_id(f) \in rows

\* C10: migrations are handled in ascending order of file name and one at
\* a time: migration_files is strictly ascending, the files of the log
\* appear in ascending order, the decision that follows a "begin" is the
\* outcome of that same file, and while a script is in progress the last
\* entry of the log is its own "begin".
C10_CatalogOrder ==
    /\ \A i, j \in 1..Len(migration_files) :
           i < j => LessThan(migration_files[i], migration_files[j])
    /\ \A i, j \in 1..Len(log) :
           (i < j /\ log[i].file # log[j].file)
               => LessThan(log[i].file, log[j].file)
    /\ \A i \in 1..Len(log) :
           (log[i].ev = "begin" /\ i < Len(log)) =>
               /\ log[i + 1].file = log[i].file
               /\ log[i + 1].ev \in {"applied", "failed"}
               /\ i + 1 = Len(log) \/ log[i + 2].file # log[i].file
    /\ pc \in InApply =>
           /\ Len(log) > 0
           /\ log[Len(log)] = [file |-> cur, ev |-> "begin"]

\* C10 witness: three scripts were executed and applied in one run
C10_Witness ==
    /\ ~dry_run
    /\ pc = "summary"
    /\ applied_count = 3
    /\ Len(log) = 6

\* the loop is at a migration whose identity is in the snapshot
AtApplied ==
    /\ pc = "loop"
    /\ idx <= Len(migration_files)
    /\ extract_migration_id(migration_files[idx]) \in applied_migrations

\* C11: a migration whose identity is in the applied set loaded by the run
\* is skipped without execution or side effect, whatever its text is now:
\* apply_migration is never called for it, and the step that handles it
\* leaves the database, the open transaction, the text read and the commit
\* history as they were and stays in the loop (or the process is killed).
C11_SkipHasNoEffect ==
    /\ [](/\ \A f \in Begun : extract_migration_id(f) \notin applied_migrations
          /\ pc \in InApply => extract_migration_id(cur) \notin applied_migrations
          /\ \A i \in 1..Len(log) :
                 log[i].ev = "skipped" =>
                     extract_migration_id(log[i].file) \in applied_migrations)
    /\ [][AtApplied =>
            /\ Db' = Db
            /\ txnObjs' = txnObjs
            /\ txnRows' = txnRows
            /\ migration_sql' = migration_sql
            /\ committed' = committed
            /\ pc' \in {"loop", "done"}
            /\ pc' = "loop" =>
                   log' = Append(log, [file |-> migration_files[idx],
                                       ev |-> "skipped"])]_vars

\* C11 witness: a run skipped a migration whose file was edited after it
\* was applied; the objects of the edited text are not in the database
C11_Witness ==
    /\ pc = "loop"
    /\ Len(log) > 0
    /\ log[Len(log)].ev = "skipped"
    /\ body[log[Len(log)].file].rev > 0
    /\ committed[log[Len(log)].file] = 1
    /\ ObjectsOf(body[log[Len(log)].file], StmtsPerScript) \cap schema = {}

\* pc values at which the snapshot of the applied set has been loaded
Loaded == {"loop", "returned", "summary", "close", "return"} \cup InApply

\* file g was renamed after it was applied, and this is the next run
RenamedForThisRun(g) ==
    /\ g \in dir
    /\ \E e \in renamed : e[1] = g /\ runs = e[2]

\* the run treats file g as a new, unapplied migration
TreatedAsNew(g) ==
    /\ pc \in Loaded => extract_migration_id(g) \notin applied_migrations
    /\ \A i \in 1..Len(log) : log[i].file = g => log[i].ev # "skipped"
    /\ \A p \in 1..(idx - 1) :
           (~dry_run /\ migration_files[p] = g) => g \in Begun

\* C12 (as claimed): the identity of every migration file listed by a run is
\* its name without the trailing ".sql", and a file renamed after it was applied
\* has an identity outside the applied set and is executed again.
C12_RenamedIsNew ==
    /\ \A p \in 1..Len(migration_files) :
           extract_migration_id(migration_files[p]) =
               SubSeq(migration_files[p], 1,
                      Len(migration_files[p]) - Len(SqlSuffix))
    /\ \A g \in FileNames : RenamedForThisRun(g) => TreatedAsNew(g)

\* C12 (amended): the identity of every migration file listed by a run is
\* the stem of its name, which is the name without ".sql" except for the file named ".sql" itself, and a file
\* renamed after it was applied to a name whose identity is not recorded is
\* executed again, although its text is the one already applied.
C12_RenamedToUnrecordedIsNew ==
    /\ \A p \in 1..Len(migration_files) :
           extract_migration_id(migration_files[p]) =
               IF migration_files[p] = SqlSuffix THEN migration_files[p]
               ELSE SubSeq(migration_files[p], 1,
                           Len(migration_files[p]) - Len(SqlSuffix))
    /\ \A g \in FileNames :
           (/\ RenamedForThisRun(g)
            /\ extract_migration_id(g) \notin runPre.rows)
               => TreatedAsNew(g)

\* C12 witness: a file renamed after it was applied was applied again under
\* its new name, with the text that was applied under the old name
C12_Witness ==
    /\ pc = "returned"
    /\ result
    /\ RenamedForThisRun(cur)
    /\ body[cur].origin # cur
    /\ body[cur].rev = 0
    /\ committed[body[cur].origin] = 1
    /\ committed[cur] = 1
    /\ extract_migration_id(cur) \in rows
    /\ extract_migration_id(body[cur].origin) \in rows

\* the set-up steps of this run include step e
Did(e) == \E i \in 1..Len(trace) : trace[i] = e

\* the run ended by itself: it returned, called sys.exit or raised
Ended == pc = "done" /\ outcome \in {"returned", "exited", "raised"}

\* the loop decided file f without a failure
DecidedOk(f) ==
    \E i \in 1..Len(log) :
        /\ log[i].file = f
        /\ log[i].ev \in {"skipped", "applied", "would_apply"}

\* C13: when a run that listed the migrations directory ends, its exit
\* status is 0 exactly when every migration file of the directory was
\* skipped as applied, applied, or reported as "would apply"; it is 1 when
\* an apply failed; a dry run that reached the loop ends with status 0.
C13_ExitStatus ==
    (Ended /\ Did("list")) =>
        /\ ret \in {0, 1}
        /\ ret = 0 <=>
               \A p \in 1..Len(migration_files_of(dir)) :
                   DecidedOk(migration_files_of(dir)[p])
        /\ (\E i \in 1..Len(log) : log[i].ev = "failed") => ret = 1
        /\ HaltedOnFailure => ret = 1
        /\ (dry_run /\ Did("select") /\ failedAt # "select") => ret = 0

\* C13 witness: a run applied one migration, failed on the next and ended
\* with status 1
C13_Witness ==
    /\ Ended
    /\ applied_count = 1
    /\ failed_count = 1
    /\ ret = 1

\* C14: with a migrations directory that holds no migration file, a run
\* performs no step other than connecting, listing the directory and, at
\* most, creating the bookkeeping table; it applies nothing, fails nothing
\* and leaves rows and schema alone; once connected it ends with status 0.
C14_EmptyCatalog ==
    (dirExists /\ migration_files_of(dir) = <<>> /\ pc # "idle") =>
        /\ \A i \in 1..Len(trace) :
               trace[i] \in {"connect", "list", "create_table"}
        /\ log = <<>>
        /\ pc \notin InApply
        /\ applied_count = 0
        /\ failed_count = 0
        /\ rows = runPre.rows
        /\ schema = runPre.schema
        /\ (Ended /\ Did("connect")) => (outcome = "returned" /\ ret = 0)

\* C14 witness: a run over a directory that holds only a file that is not
\* a migration ended with status 0
C14_Witness ==
    /\ Ended
    /\ dirExists
    /\ dir # {}
    /\ migration_files_of(dir) = <<>>
    /\ Did("list")
    /\ ret = 0

\* C15 (as claimed): every run that returns from run_migrations after it
\* connected (success, migration failure, empty catalog, dry run) has
\* printed the end-of-run summary.
C15_SummaryOnEveryRun ==
    (pc = "done" /\ outcome = "returned" /\ Did("connect")) => summarized

\* C16 (as claimed): in every run the connection is acquired first, the
\* bookkeeping table is ensured next and the migrations directory is listed
\* only after that; the loop starts after all three.
C16_TableBeforeCatalog ==
    /\ \A i \in 1..Len(trace) :
           trace[i] = "create_table" =>
               \E j \in 1..(i - 1) : trace[j] = "connect"
    /\ \A i \in 1..Len(trace) :
           trace[i] = "list" =>
               \E j \in 1..(i - 1) : trace[j] = "create_table"
    /\ pc \in Loaded =>
           (Did("connect") /\ Did("create_table") /\ Did("list"))

\* C17: the applied set is loaded once per run, after the bookkeeping table
\* was created and before the loop decides any file; it is the content of
\* schema_migrations at that moment and does not change for the rest of the
\* run; every decision of the loop follows it: a file is skipped exactly
\* when its identity is in the snapshot, whatever rows the run itself or
\* another invocation added since.
C17_SnapshotLoadedOnce ==
    /\ [](/\ Cardinality({i \in 1..Len(trace) : trace[i] = "select"}) <= 1
          /\ \A i \in 1..Len(trace) :
                 trace[i] = "select" =>
                     \E j \in 1..(i - 1) : trace[j] = "create_table"
          /\ pc \in Loaded => (Did("select") /\ failedAt # "select")
          /\ (log # <<>> \/ idx > 1) => Did("select")
          /\ \A i \in 1..Len(log) :
                 log[i].ev = "skipped" <=>
                     extract_migration_id(log[i].file) \in applied_migrations)
    /\ [][/\ (pc = "select" /\ pc' = "loop") => applied_migrations' = rows
          /\ (pc \in Loaded /\ runs' = runs) =>
                 applied_migrations' = applied_migrations]_vars

\* C17 witness: apply_migration is running for a file whose identity was
\* inserted into schema_migrations after the snapshot was loaded
C17_Witness ==
    /\ pc = "execute"
    /\ extract_migration_id(cur) \in rows
    /\ extract_migration_id(cur) \notin applied_migrations
    /\ committed[cur] = 0

\* the run has touched neither the database nor any migration
Untouched ==
    /\ log = <<>>
    /\ idx = 1
    /\ pc \notin Loaded
    /\ Db = runPre
    /\ txnObjs = {}
    /\ txnRows = {}

\* C18: on a configuration error the apply loop is never begun, no script
\* is executed, no row is written and the process ends with a non-zero
\* status: with a missing migrations directory at every point of the run,
\* and after a failed connection.
C18_ConfigErrorIsFatal ==
    /\ (~dirExists /\ pc # "idle") =>
           /\ Untouched
           /\ migration_files = <<>>
           /\ Ended => ret # 0
           /\ (Ended /\ Did("connect")) => outcome = "exited"
    /\ failedAt = "connect" =>
           /\ Untouched
           /\ conn = "none"
           /\ trace = <<>>
           /\ pc = "done"
           /\ ret # 0

\* C18 witness: a run connected, found no migrations directory and exited
\* with status 1
C18_Witness ==
    /\ Ended
    /\ ~dirExists
    /\ conn = "open"
    /\ failedAt = "list"
    /\ ret = 1

\* C19 (as claimed): when a migration file of the run cannot be read, no
\* migration of that run has been executed or recorded.
C19_UnreadableIsFatalBeforeAny ==
    failedAt = "read" =>
        /\ \A i \in 1..Len(log) : log[i].ev # "applied"
        /\ schema = runPre.schema
        /\ rows = runPre.rows

\* C20: when creating or querying the bookkeeping table raises, the run is
\* over: no script was or will be executed, nothing was recorded, and the
\* process ends with a non-zero status.
C20_BookkeepingFailureIsFatal ==
    failedAt \in {"create_table", "select"} =>
        /\ pc = "done"
        /\ outcome \in {"raised", "killed"}
        /\ ret # 0
        /\ log = <<>>
        /\ idx = 1
        /\ schema = runPre.schema
        /\ rows = runPre.rows
        /\ txnObjs = {}

\* C20 witness: the bookkeeping table was created, then the SELECT raised
\* and the run ended with status 1 with pending migrations untouched
C20_Witness ==
    /\ Ended
    /\ failedAt = "select"
    /\ tableExists
    /\ ~runPre.tableExists
    /\ Len(migration_files) = 2
    /\ ret = 1

\* the migration at position p of the catalog has no row
Pending(p) == extract_migration_id(migration_files[p]) \notin rows

\* a run that was not a dry run went through the loop and returned 0
CleanRun ==
    /\ pc = "done"
    /\ outcome = "returned"
    /\ ret = 0
    /\ ~dry_run
    /\ Did("select")

\* this run applied file f
Applied(f) == \E i \in 1..Len(log) : log[i] = [file |-> f, ev |-> "applied"]

\* a run without failure applies what was pending when it began, in catalog
\* order, starting with the migration the previous run stopped at
AppliesPending ==
    CleanRun =>
        /\ \A p \in 1..Len(migration_files) :
               extract_migration_id(migration_files[p]) \notin runPre.rows
                   => Applied(migration_files[p])
        /\ \A i, j \in 1..Len(log) :
               (i < j /\ log[i].ev = "applied" /\ log[j].ev = "applied")
                   => LessThan(log[i].file, log[j].file)
        /\ (halted # <<>> /\ extract_migration_id(halted) \notin runPre.rows)
               => /\ Applied(halted)
                  /\ \A i \in 1..Len(log) :
                         log[i].ev = "applied" =>
                             \/ log[i].file = halted
                             \/ LessThan(halted, log[i].file)
        /\ Identities(dir) \subseteq rows

\* every identity of the catalog is recorded
Recovered == Identities(dir) \subseteq rows

\* C21 (as claimed): after a run has stopped at a failing migration, that
\* migration and all migrations after it in the catalog are pending; a later
\* run without failure applies the failing migration and then every other
\* pending migration in catalog order; and when failures cease, repeated
\* runs lead to a state in which every catalog identity is recorded.
C21_FailedAndLaterStayPending ==
    /\ [](HaltedOnFailure =>
              \A p \in idx..Len(migration_files) : Pending(p))
    /\ []AppliesPending
    /\ <>[]Recovered

\* C21 (amended): the same, where a migration at or after the failing one
\* is pending unless it has the identity of a migration before the failing
\* one (the files ".sql" and ".sql.sql" have the same identity).
C21_Recovery ==
    /\ [](HaltedOnFailure =>
              \A p \in idx..Len(migration_files) :
                  (\A q \in 1..(idx - 1) :
                       extract_migration_id(migration_files[q]) #
                           extract_migration_id(migration_files[p]))
                      => Pending(p))
    /\ []AppliesPending
    /\ <>[]Recovered

\* C21 witness: the first run stopped at the first of two migrations; the
\* second run applied that migration and then the other one
C21_Witness ==
    /\ CleanRun
    /\ runs = 2
    /\ Len(migration_files) = 2
    /\ halted = migration_files[1]
    /\ runPre.rows = {}
    /\ runPre.tableExists
    /\ Applied(migration_files[1])
    /\ Applied(migration_files[2])
    /\ Cardinality(rows) = 2

\* the number of calls of apply_migration for file f in this run
Attempts(f) ==
    Cardinality({i \in 1..Len(log) : log[i] = [file |-> f, ev |-> "begin"]})

\* C22: in every run failed_count is 0 or 1 at every point and when the run
\* ends, it is 1 only after an apply_migration call of the run returned
\* False and the loop stopped there, at most one call fails in a run, and
\* apply_migration is called at most once for each migration file.
C22_FailedCountAndNoRetry ==
    /\ failed_count \in {0, 1}
    /\ failed_count = 1 =>
           /\ pc \in AfterLoop
           /\ Len(log) > 0
           /\ idx <= Len(migration_files)
           /\ log[Len(log)] = [file |-> migration_files[idx], ev |-> "failed"]
    /\ (/\ pc \in AfterLoop
        /\ outcome # "killed"
        /\ \E i \in 1..Len(log) : log[i].ev = "failed") => failed_count = 1
    /\ Cardinality({i \in 1..Len(log) : log[i].ev = "failed"}) <= 1
    /\ \A f \in FileNames : Attempts(f) <= 1
    /\ \A f \in FileNames :
           Cardinality({i \in 1..Len(log) : log[i].file = f
                            /\ log[i].ev \in {"applied", "failed"}}) <= 1

\* C22 witness: a run called apply_migration for three files, once each,
\* and the third call failed
C22_Witness ==
    /\ pc = "summary"
    /\ failed_count = 1
    /\ applied_count = 2
    /\ Cardinality(Begun) = 3
    /\ \A f \in Begun : Attempts(f) = 1

\* C23: when cur.execute raised at a later statement of a script, after
\* earlier statements had taken effect in the open transaction, then once
\* the except clause has run (or the process is gone) nothing of that
\* attempt is in the database: nothing is pending, the schema is what it was
\* when apply_migration was called, no object of the script exists unless an
\* earlier commit of the same script created it, and no row was added.
C23_PartialFailureAtomicity ==
    /\ (failedAt = "execute_later" /\ pc = "except") =>
           /\ txnObjs # {}
           /\ txnObjs \subseteq ObjectsOf(migration_sql, StmtsPerScript - 1)
           /\ schema = pre.schema
    /\ (failedAt = "execute_later" /\ pc # "except") =>
           /\ txnObjs = {}
           /\ txnRows = {}
           /\ schema = pre.schema
           /\ rows = pre.rows
           /\ committed[migration_files[idx]] = 0 =>
                  ObjectsOf(migration_sql, StmtsPerScript) \cap schema = {}

\* C23 witness: the second migration of a run raised after its first
\* statement; apply_migration returned False and the database holds the
\* objects of the first migration only
C23_Witness ==
    /\ pc = "returned"
    /\ ~result
    /\ failedAt = "execute_later"
    /\ idx = 2
    /\ schema = ObjectsOf(body[migration_files[1]], StmtsPerScript)
    /\ ObjectsOf(migration_sql, StmtsPerScript) \cap schema = {}
    /\ Cardinality(rows) = 1

\* C24: when a run that is not a dry run ends with status 0, every migration
\* file of the catalog was skipped as applied or applied in this run, none
\* failed, and every identity of the catalog is in schema_migrations.
C24_CompleteOkMeansAllRecorded ==
    (Ended /\ ret = 0 /\ ~dry_run) =>
        /\ outcome = "returned"
        /\ failed_count = 0
        /\ \A f \in dir :
               MatchesSql(f) =>
                   \E i \in 1..Len(log) :
                       /\ log[i].file = f
                       /\ log[i].ev \in {"skipped", "applied"}
        /\ \A i \in 1..Len(log) : log[i].ev \in {"begin", "skipped", "applied"}
        /\ Identities(dir) \subseteq rows

\* C24 witness: a run skipped one migration, applied the other and ended
\* with status 0 and two rows
C24_Witness ==
    /\ CleanRun
    /\ Len(log) = 3
    /\ log[1].ev = "skipped"
    /\ log[3].ev = "applied"
    /\ runPre.rows # {}
    /\ Cardinality(rows) = 2

\* C25 (as claimed, from the docstring of run_migrations): run_migrations
\* returns the number of migrations applied during the run, and 0 in a dry
\* run. The code returns 0 or 1 instead.
C25_ReturnsAppliedCount ==
    (pc = "done" /\ outcome = "returned") =>
        ret = IF dry_run THEN 0 ELSE applied_count

\* the argument given for section s is not a str with a visible character
Offending(s) ==
    \/ kwargs[s].type # "str"
    \/ \A i \in 1..Len(kwargs[s].text) : kwargs[s].text[i] \in Whitespace

\* text u is text t without its leading and trailing whitespace
IsStripped(u, t) ==
    /\ u # <<>>
    /\ u[1] \notin Whitespace
    /\ u[Len(u)] \notin Whitespace
    /\ \E i \in 1..Len(t) :
           /\ i + Len(u) - 1 <= Len(t)
           /\ u = SubSeq(t, i, i + Len(u) - 1)
           /\ \A k \in 1..(i - 1) : t[k] \in Whitespace
           /\ \A k \in (i + Len(u))..Len(t) : t[k] \in Whitespace

\* C26: a construction of IEEE_SRS_Model succeeds exactly when every one of
\* the six sections is given as a str that has a character other than
\* whitespace; the section stored is then the text given without its
\* leading and trailing whitespace, and validating a stored section again
\* returns it unchanged; otherwise the construction is rejected with exactly
\* one error for each section that is absent, None, not a str, empty or
\* whitespace only, and no error for any other section.
C26_RequiredSections ==
    /\ srs_pc = "constructed" =>
           /\ errors = <<>>
           /\ \A s \in Sections :
                  /\ ~Offending(s)
                  /\ IsStripped(srs[s], kwargs[s].text)
                  /\ validate_required_sections(Str(srs[s])) =
                         [raises |-> FALSE, text |-> srs[s]]
    /\ srs_pc = "rejected" =>
           /\ \E s \in Sections : Offending(s)
           /\ \A s \in Sections :
                  Cardinality({i \in 1..Len(errors) : errors[i].loc = s}) =
                      IF Offending(s) THEN 1 ELSE 0
           /\ \A i \in 1..Len(errors) :
                  errors[i].type = "missing" <=> kwargs[errors[i].loc] = Missing

\* C26 witness: a model was built from a section given with a leading
\* space and another given with a trailing space, both stored without it
C26_Witness ==
    /\ srs_pc = "constructed"
    /\ kwargs["introduction"] = Str(<<32, 97>>)
    /\ kwargs["appendices"] = Str(<<97, 32>>)
    /\ srs["introduction"] = <<97>>
    /\ srs["appendices"] = <<97>>

\* C27: with a fixed catalog and sequential runs that start from an empty
\* bookkeeping table, the recorded identities are at all times a prefix of
\* the catalog in file name order: they are identities of the catalog, and
\* when a migration is recorded every migration sorting before it is too.
C27_RecordedIsPrefix ==
    /\ rows \subseteq Identities(dir)
    /\ \A p, q \in 1..Len(migration_files_of(dir)) :
           (/\ p < q
            /\ extract_migration_id(migration_files_of(dir)[q]) \in rows)
               => extract_migration_id(migration_files_of(dir)[p]) \in rows

\* C27 witness: after a first run that failed at the second of three
\* migrations and a second run that failed at the third, two are recorded
C27_Witness ==
    /\ pc = "done"
    /\ runs = 2
    /\ Len(migration_files) = 3
    /\ failed_count = 1
    /\ idx = 3
    /\ Cardinality(runPre.rows) = 1
    /\ Cardinality(rows) = 2

\* C28 (as claimed): whenever a run that acquired a connection has ended
\* (returned, exited or raised), the connection has been closed.
C28_ConnectionClosed ==
    (Ended /\ Did("connect")) => conn = "closed"

\* C29: with another invocation recording identities in the same table, no
\* row is ever stored for an identity that has a row; when the identity of
\* the migration being marked was recorded by the other one, the INSERT
\* completes, inserting nothing, and the migration is reported as applied.
C29_ConflictDoesNothing ==
    /\ txnRows \cap rows = {}
    /\ (pc = "mark" /\ extract_migration_id(cur) \in rows) =>
           ENABLED (/\ mark_migration_applied_insert
                    /\ pc' = "mark_commit"
                    /\ txnRows' = txnRows)
    /\ pc = "mark_commit" =>
           ENABLED (mark_migration_applied_commit /\ pc' = "success")
    /\ pc = "success" =>
           /\ extract_migration_id(cur) \in rows
           /\ ENABLED (apply_migration_success /\ result')
    /\ (pc = "returned" /\ result) =>
           /\ extract_migration_id(cur) \in rows
           /\ log[Len(log)] = [file |-> cur, ev |-> "applied"]
           /\ ENABLED (loop_applied /\ applied_count' = applied_count + 1)

\* C29 witness: apply_migration returned True for a migration whose
\* identity the other invocation had recorded before the call began
C29_Witness ==
    /\ pc = "returned"
    /\ result
    /\ extract_migration_id(cur) \in pre.rows
    /\ extract_migration_id(cur) \notin applied_migrations
    /\ committed[cur] = 1

TypeOK ==
    /\ dirExists \in BOOLEAN
    /\ dir \subseteq FileNames
    /\ tableExists \in BOOLEAN
    /\ rows \subseteq AllIdentities
    /\ conn \in {"none", "open", "closed"}
    /\ idx \in 1..(Len(migration_files) + 1)
    /\ applied_count \in 0..Len(migration_files)
    /\ failed_count \in 0..1
    /\ runs \in 0..MaxRuns

====
